---- MODULE Spec2Model ----
(***************************************************************************)
(* Model of pretrain.py: the sentence-pair loader (SentPairDataLoader) and  *)
(* the masking transform (Preprocess4Pretrain).                            *)
(*                                                                         *)
(* Indices are 0-based as in the Python source; a Python list l is the     *)
(* sequence s with l[i] = s[i + 1].  A corpus line is held as the tokens   *)
(* that self.tokenize(line.strip()) yields for it; a blank line (one whose *)
(* strip() is empty) is the line with no tokens.  Probabilities are held   *)
(* in quarters (0..4 stands for 0.0, 0.25, 0.5, 0.75, 1.0), which are      *)
(* exact as floats, so that round() is computed exactly.                   *)
(***************************************************************************)
EXTENDS Integers, Sequences, FiniteSets, TLC

VARIABLES
    sentences,            \* SentPairDataLoader.sentences
    batch_size,           \* SentPairDataLoader.batch_size
    max_len,              \* SentPairDataLoader.max_len = Preprocess4Pretrain.max_len
    short_sampling_prob,  \* SentPairDataLoader.short_sampling_prob (quarters)
    max_pred,             \* Preprocess4Pretrain.max_pred
    mask_prob,            \* Preprocess4Pretrain.mask_prob (quarters)
    vocab_words,          \* Preprocess4Pretrain.vocab_words
    now,                  \* __iter__: the cursor
    batch,                \* __iter__: the batch under construction
    pc,                   \* __iter__: "iter" (running), "yield" (suspended at line 80),
                          \* "done" (returned), "raised"; "idle" when no iteration runs
    out,                  \* the batch_tensors handed over while suspended at the yield
    nyield,               \* number of batches yielded so far
    nslots,               \* number of slots (for-loop bodies) executed so far
    slot,                 \* the draws and the two reads of the last slot
    call                  \* a direct call of read_tokens or of the transform

vars == <<sentences, batch_size, max_len, short_sampling_prob, max_pred,
          mask_prob, vocab_words, now, batch, pc, out, nyield, nslots, slot, call>>

cfgvars == <<sentences, batch_size, max_len, short_sampling_prob, max_pred, mask_prob,
             vocab_words>>

itervars == <<now, batch, pc, out, nyield, nslots, slot>>

(***************************************************************************)
(* Bounds of the model.                                                    *)
(***************************************************************************)
MaxLines == 3       \* lines of a corpus
MaxReadLen == 3     \* the length asked of a direct call of read_tokens
MaxBatch == 2       \* batch_size
MaxSpan == 2        \* tokens of a span handed directly to the transform
MaxYield == 5       \* batches yielded in one iteration

Words == {"a", "b"}

\* The configurations of the loader and of the transform that are tried.
MaxLens == {4, 5}

MaxPreds == {1, 2}

\* The configurations tried on direct calls of the transform.
TransformMaxLens == {4, 5, 6}

TransformMaxPreds == {1, 2, 3}

\* The lines of the corpora that read_tokens is called on directly.
ReaderLines == {<<>>, <<"a">>, <<"b">>, <<"a", "b">>}

\* The vocabulary file of the tokenizer: the special tokens and the words; the
\* token at position i has id i - 1, so "[PAD]" has id 0.
Vocab == <<"[PAD]", "[CLS]", "[SEP]", "[MASK]", "a", "b">>

Quarters == 0..4

Min(x, y) == IF x <= y THEN x ELSE y

Max(x, y) == IF x >= y THEN x ELSE y

Range(s) == {s[i] : i \in 1..Len(s)}

SeqsUpTo(S, n) == UNION {[1..k -> S] : k \in 0..n}

Front(s) == SubSeq(s, 1, Len(s) - 1)

\* Python's [v] * n: the empty list when n <= 0.
Repeat(v, n) == [i \in 1..n |-> v]

\* Python's l[:n] for n >= 0.
Prefix(s, n) == SubSeq(s, 1, Min(n, Len(s)))

(***************************************************************************)
(* SentPairDataLoader.read_tokens.  The result is a record: ok = FALSE is  *)
(* None; idx is the value of the local idx at the return, so the lines     *)
(* read are those from the start index up to idx - 1.                      *)
(***************************************************************************)
IsBlank(line) == Len(line) = 0

AtEnd(sents, idx) == idx >= Len(sents)

OnBlankKeepMut(tokens) == tokens

\* line 44: tokens = []
OnBlankRestart(tokens) == <<>>

\* line 48: tokens.extend(self.tokenize(line.strip()))
Extend(tokens, line) == tokens \o line

RECURSIVE read_loop(_, _, _, _, _)
read_loop(sents, idx, length, non_empty, tokens) ==
    IF Len(tokens) < length
    THEN IF AtEnd(sents, idx)
         THEN [ok |-> FALSE, tokens |-> <<>>, idx |-> idx]
         ELSE LET line == sents[idx + 1]
              IN IF IsBlank(line)
                 THEN IF non_empty
                      THEN read_loop(sents, idx + 1, length, non_empty, OnBlankRestart(tokens))
                      ELSE [ok |-> TRUE, tokens |-> tokens, idx |-> idx + 1]
                 ELSE read_loop(sents, idx + 1, length, non_empty, Extend(tokens, line))
    ELSE [ok |-> TRUE, tokens |-> tokens, idx |-> idx]

read_tokens(sents, idx, length, non_empty) == read_loop(sents, idx, length, non_empty, <<>>)

(***************************************************************************)
(* utils.truncate_tokens_pair: pops from the longer span, from tokens_b on *)
(* a tie, until the two spans fit.                                         *)
(***************************************************************************)
RECURSIVE truncate_tokens_pair(_, _, _)
truncate_tokens_pair(tokens_a, tokens_b, budget) ==
    IF Len(tokens_a) + Len(tokens_b) <= budget
    THEN <<tokens_a, tokens_b>>
    ELSE IF Len(tokens_a) > Len(tokens_b)
         THEN truncate_tokens_pair(Front(tokens_a), tokens_b, budget)
         ELSE truncate_tokens_pair(tokens_a, Front(tokens_b), budget)

\* tokenizer.convert_tokens_to_ids on one token: the vocabulary lookup.
TokenId(tok) == (CHOOSE i \in 1..Len(Vocab) : Vocab[i] = tok) - 1

\* self.indexer(tokens)
Indexer(tokens) == [i \in 1..Len(tokens) |-> TokenId(tokens[i])]

(***************************************************************************)
(* Preprocess4Pretrain.__call__.                                           *)
(***************************************************************************)
\* line 109
Assemble(tokens_a, tokens_b) == <<"[CLS]">> \o tokens_a \o <<"[SEP]">> \o tokens_b \o <<"[SEP]">>

\* line 110
SegmentIds(tokens_a, tokens_b) == Repeat(0, Len(tokens_a) + 2) \o Repeat(1, Len(tokens_b) + 1)

\* Python's round() of n / 4 for n >= 0: to the nearest integer, a tie to the even one.
RoundQuarters(n) ==
    LET q == n \div 4
        r == n % 4
    IN IF r < 2 THEN q
       ELSE IF r > 2 THEN q + 1
       ELSE IF q % 2 = 0 THEN q ELSE q + 1

NPredNoCapMut(ntokens, maxpred, prob) == Max(1, RoundQuarters(ntokens * prob))

\* line 116
NPred(ntokens, maxpred, prob) == Min(maxpred, Max(1, RoundQuarters(ntokens * prob)))

\* line 119
IsCand(token) == token /= "[CLS]" /\ token /= "[SEP]"

\* lines 118-119: the candidate positions, in increasing order
RECURSIVE cand_from(_, _)
cand_from(tokens, i) ==
    IF i >= Len(tokens) THEN <<>>
    ELSE (IF IsCand(tokens[i + 1]) THEN <<i>> ELSE <<>>) \o cand_from(tokens, i + 1)

CandPos(tokens) == cand_from(tokens, 0)

\* line 120: the orders shuffle() can leave cand_pos in
Shuffles(s) ==
    {p \in [1..Len(s) -> Range(s)] : \A i, j \in 1..Len(s) : i /= j => p[i] /= p[j]}

\* lines 124-127: the outcomes of rand() < 0.8, rand() < 0.5 and get_random_word
Draws(words) ==
    {[kind |-> "mask", word |-> "[MASK]"], [kind |-> "keep", word |-> "[MASK]"]}
    \cup {[kind |-> "random", word |-> words[i]] : i \in 1..Len(words)}

\* lines 124-127: the token left at a masked position
Replace(tok, d) ==
    IF d.kind = "mask" THEN "[MASK]"
    ELSE IF d.kind = "random" THEN d.word
    ELSE tok

MaskStepLateMut(st, pos, d) ==
    LET t == [st.tokens EXCEPT ![pos + 1] = Replace(@, d)]
    IN [tokens |-> t,
        masked_tokens |-> Append(st.masked_tokens, t[pos + 1]),
        masked_pos |-> Append(st.masked_pos, pos)]

\* lines 122-127: one iteration of the masking loop
MaskStep(st, pos, d) ==
    [tokens |-> [st.tokens EXCEPT ![pos + 1] = Replace(@, d)],
     masked_tokens |-> Append(st.masked_tokens, st.tokens[pos + 1]),
     masked_pos |-> Append(st.masked_pos, pos)]

\* lines 121-127: the loop over sel = cand_pos[:n_pred]
RECURSIVE mask_loop(_, _, _, _)
mask_loop(st, sel, draws, i) ==
    IF i > Len(sel) THEN st
    ELSE mask_loop(MaskStep(st, sel[i], draws[i]), sel, draws, i + 1)

\* lines 142-146: the pad of the three masked lists
MaskedPad(maxpred, n_pred) == IF maxpred > n_pred THEN maxpred - n_pred ELSE 0

\* lines 103-119: truncation, assembly, n_pred and the candidate positions
Prepare(instance, maxlen, maxpred, prob) ==
    LET trunc == truncate_tokens_pair(instance[2], instance[3], maxlen - 3)
        tokens == Assemble(trunc[1], trunc[2])
    IN [is_next |-> instance[1],
        tokens |-> tokens,
        segment_ids |-> SegmentIds(trunc[1], trunc[2]),
        input_mask |-> Repeat(1, Len(tokens)),
        n_pred |-> NPred(Len(tokens), maxpred, prob),
        cand_pos |-> CandPos(tokens)]

\* lines 120-148: masking, indexing and padding, perm being what shuffle left
\* in cand_pos and draws[i] the draws of the i-th iteration of the loop
MaskAndPad(prep, maxlen, maxpred, perm, draws) ==
    LET st == mask_loop([tokens |-> prep.tokens, masked_tokens |-> <<>>, masked_pos |-> <<>>],
                        Prefix(perm, prep.n_pred), draws, 1)
        masked_weights == Repeat(1, Len(st.masked_tokens))
        input_ids == Indexer(st.tokens)
        masked_ids == Indexer(st.masked_tokens)
        n_pad == maxlen - Len(input_ids)
        m_pad == MaskedPad(maxpred, prep.n_pred)
    IN <<input_ids \o Repeat(0, n_pad),
         prep.segment_ids \o Repeat(0, n_pad),
         prep.input_mask \o Repeat(0, n_pad),
         masked_ids \o Repeat(0, m_pad),
         st.masked_pos \o Repeat(0, m_pad),
         masked_weights \o Repeat(0, m_pad),
         prep.is_next>>

\* Preprocess4Pretrain.__call__: every instance it can return for a raw instance.
Transformed(instance, maxlen, maxpred, prob, words) ==
    LET prep == Prepare(instance, maxlen, maxpred, prob)
        k == Min(prep.n_pred, Len(prep.cand_pos))
    IN {MaskAndPad(prep, maxlen, maxpred, perm, draws) :
            perm \in Shuffles(prep.cand_pos), draws \in [1..k -> Draws(words)]}

(***************************************************************************)
(* SentPairDataLoader.__iter__.  One slot is one body of the for loop      *)
(* (lines 56-76); the end of the for loop is lines 79-80.                  *)
(***************************************************************************)
\* line 59: the outcomes of rand() < short_sampling_prob, rand() being in [0, 1)
ShortDraws(prob) == {b \in BOOLEAN : (b => prob > 0) /\ (~b => prob < 4)}

\* lines 58-60: the values len_tokens can take, over the draws of rand() and randint
LenTokens(prob, maxlen) ==
    UNION {IF short THEN 1..(maxlen \div 2) ELSE {maxlen \div 2} : short \in ShortDraws(prob)}

\* line 65: randint(0, tot) is any integer of 0..tot, both ends included
NextIdx(cursor, is_next, tot) == IF is_next THEN {cursor + 1} ELSE 0..tot

NextCursorStayMut(cursor, ra, rb) == cursor

NextCursorSkipMut(cursor, ra, rb) == IF ra.ok THEN ra.idx ELSE cursor + 1

\* line 67: now += 1
NextCursor(cursor, ra, rb) == cursor + 1

\* line 69
EndOfFile(ra, rb) == ~ra.ok \/ ~rb.ok

ForLoopEndsMut(b, size) == Len(b) >= Min(size, 1)

\* line 55: the for loop over range(batch_size) has run out
ForLoopEnds(b, size) == Len(b) >= size

\* lines 73-74: the pipeline of main(), the one stage Preprocess4Pretrain
Pipeline(instance) == Transformed(instance, max_len, max_pred, mask_prob, vocab_words)

\* line 79: zip(*batch), nothing for an empty batch
Zip(b) == IF Len(b) = 0 THEN <<>> ELSE [k \in 1..7 |-> [i \in 1..Len(b) |-> b[i][k]]]

\* line 79: torch.tensor raises on rows of different lengths
Tensorable(columns) ==
    \A k \in 1..Len(columns) : k < 7 =>
        \A i, j \in 1..Len(columns[k]) : Len(columns[k][i]) = Len(columns[k][j])

\* line 79: torch.tensor(x, dtype=torch.long); is_next becomes 0 or 1
ToTensors(columns) ==
    [k \in 1..Len(columns) |->
        IF k < 7 THEN columns[k]
        ELSE [i \in 1..Len(columns[k]) |-> IF columns[k][i] THEN 1 ELSE 0]]

NoSlot ==
    [is_next |-> FALSE, len_tokens |-> 0, start |-> 0, next_idx |-> 0,
     ra |-> [ok |-> FALSE, tokens |-> <<>>, idx |-> 0],
     rb |-> [ok |-> FALSE, tokens |-> <<>>, idx |-> 0]]

NoCall == [op |-> "none", args |-> <<>>, ret |-> <<>>]

Slot ==
    /\ pc = "iter"
    /\ ~ForLoopEnds(batch, batch_size)
    /\ \E len_tokens \in LenTokens(short_sampling_prob, max_len), is_next \in BOOLEAN :
       \E next_idx \in NextIdx(now, is_next, Len(sentences)) :
          LET ra == read_tokens(sentences, now, len_tokens, TRUE)
              rb == read_tokens(sentences, next_idx, len_tokens, FALSE)
          IN /\ now' = NextCursor(now, ra, rb)
             /\ nslots' = nslots + 1
             /\ slot' = [is_next |-> is_next, len_tokens |-> len_tokens, start |-> now,
                         next_idx |-> next_idx, ra |-> ra, rb |-> rb]
             /\ IF EndOfFile(ra, rb)
                THEN /\ pc' = "done"
                     /\ batch' = batch
                ELSE /\ pc' = pc
                     /\ \E instance \in Pipeline(<<is_next, ra.tokens, rb.tokens>>) :
                           batch' = Append(batch, instance)
    /\ UNCHANGED <<cfgvars, out, nyield, call>>

YieldBatch ==
    /\ pc = "iter"
    /\ ForLoopEnds(batch, batch_size)
    /\ Tensorable(Zip(batch))
    /\ nyield < MaxYield
    /\ out' = ToTensors(Zip(batch))
    /\ nyield' = nyield + 1
    /\ pc' = "yield"
    /\ UNCHANGED <<cfgvars, now, batch, nslots, slot, call>>

\* The consumer takes the batch and asks for the next: line 54, batch = [].
Resume ==
    /\ pc = "yield"
    /\ pc' = "iter"
    /\ batch' = <<>>
    /\ out' = <<>>
    /\ UNCHANGED <<cfgvars, now, nyield, nslots, slot, call>>

TensorError ==
    /\ pc = "iter"
    /\ ForLoopEnds(batch, batch_size)
    /\ ~Tensorable(Zip(batch))
    /\ pc' = "raised"
    /\ UNCHANGED <<cfgvars, now, batch, out, nyield, nslots, slot, call>>

\* The corpora an iteration runs over: lines that are blank or hold one token.
Corpora == SeqsUpTo({<<>>, <<"a">>}, MaxLines)

\* The state at the first next() of iter(loader): line 52.
IterStart ==
    /\ now = 0
    /\ batch = <<>>
    /\ pc = "iter"
    /\ out = <<>>
    /\ nyield = 0
    /\ nslots = 0
    /\ slot = NoSlot
    /\ call = NoCall

\* SentPairDataLoader.__init__ and Preprocess4Pretrain.__init__ with a
\* configuration in the documented ranges.
Init ==
    /\ sentences \in Corpora
    /\ batch_size \in 1..MaxBatch
    /\ max_len \in MaxLens
    /\ short_sampling_prob \in {2}
    /\ max_pred \in MaxPreds
    /\ mask_prob \in {2}
    /\ vocab_words \in {<<"a">>}
    /\ IterStart

Next == Slot \/ YieldBatch \/ TensorError \/ Resume

Spec == Init /\ [][Next]_vars

\* The constructors take any configuration: neither __init__ checks one.
InitCfg ==
    /\ sentences \in Corpora
    /\ batch_size \in (-1)..MaxBatch
    /\ max_len \in MaxLens
    /\ short_sampling_prob \in {0, 2, 4}
    /\ max_pred \in MaxPreds \cup {max_len + 1}
    /\ mask_prob \in {2}
    /\ vocab_words \in {<<"a">>}
    /\ IterStart

SpecCfg == InitCfg /\ [][Next]_vars

(***************************************************************************)
(* Direct calls of the two functions, the arguments drawn in the initial   *)
(* state.                                                                  *)
(***************************************************************************)
NoIter ==
    /\ now = 0
    /\ batch = <<>>
    /\ out = <<>>
    /\ nyield = 0
    /\ nslots = 0
    /\ slot = NoSlot

\* A Preprocess4Pretrain object and a raw instance to call it on.
InitT ==
    /\ sentences = <<>>
    /\ batch_size = 1
    /\ short_sampling_prob = 0
    /\ max_len \in TransformMaxLens
    /\ max_pred \in TransformMaxPreds
    /\ mask_prob \in Quarters
    /\ vocab_words \in {<<"[SEP]", "b">>}
    /\ NoIter
    /\ pc = "call"
    /\ \E is_next \in BOOLEAN, tokens_a, tokens_b \in SeqsUpTo(Words, MaxSpan) :
          call = [op |-> "transform", args |-> <<is_next, tokens_a, tokens_b>>, ret |-> <<>>]

\* Preprocess4Pretrain.__call__(instance)
TransformCall ==
    /\ pc = "call"
    /\ call.op = "transform"
    /\ \E r \in Transformed(call.args, max_len, max_pred, mask_prob, vocab_words) :
          call' = [call EXCEPT !.ret = r]
    /\ pc' = "ret"
    /\ UNCHANGED <<cfgvars, now, batch, out, nyield, nslots, slot>>

NextT == TransformCall

SpecT == InitT /\ [][NextT]_vars

\* A loader over a corpus and the arguments of one call of read_tokens.
InitR ==
    /\ sentences \in SeqsUpTo(ReaderLines, MaxLines)
    /\ batch_size = 1
    /\ short_sampling_prob = 0
    /\ max_len = 4
    /\ max_pred = 1
    /\ mask_prob = 0
    /\ vocab_words = <<>>
    /\ NoIter
    /\ pc = "call"
    /\ \E idx \in 0..(MaxLines + 1), length \in 0..MaxReadLen, non_empty \in BOOLEAN :
          call = [op |-> "read", args |-> <<idx, length, non_empty>>, ret |-> <<>>]

\* self.read_tokens(idx, length, non_empty)
ReadCall ==
    /\ pc = "call"
    /\ call.op = "read"
    /\ call' = [call EXCEPT !.ret = read_tokens(sentences, call.args[1], call.args[2], call.args[3])]
    /\ pc' = "ret"
    /\ UNCHANGED <<cfgvars, now, batch, out, nyield, nslots, slot>>

NextR == ReadCall

SpecR == InitR /\ [][NextR]_vars

(***************************************************************************)
(* The claims.                                                             *)
(***************************************************************************)
Returned(op) == pc = "ret" /\ call.op = op

\* The spans of the raw instance of a direct call after truncation, and the
\* sequence assembled from them (before any masking).
TruncatedSpans == truncate_tokens_pair(call.args[2], call.args[3], max_len - 3)

AssembledTokens == Assemble(TruncatedSpans[1], TruncatedSpans[2])

Ones(w) == Cardinality({i \in 1..Len(w) : w[i] = 1})

\* n_pred as the specification states it, for a sequence of ntokens tokens.
StatedNPred(ntokens) ==
    LET n == ntokens * mask_prob
        r == IF n % 4 = 2 THEN (IF (n \div 4) % 2 = 0 THEN n \div 4 ELSE n \div 4 + 1)
             ELSE (n + 2) \div 4
        atleast1 == IF r < 1 THEN 1 ELSE r
    IN IF atleast1 > max_pred THEN max_pred ELSE atleast1

\* C1: every instance the transform returns, empty spans included, has
\* input_ids, segment_ids and input_mask of length max_len and masked_ids,
\* masked_pos and masked_weights of length max_pred.
C1_FixedLengths ==
    Returned("transform") =>
        /\ Len(call.ret[1]) = max_len
        /\ Len(call.ret[2]) = max_len
        /\ Len(call.ret[3]) = max_len
        /\ Len(call.ret[4]) = max_pred
        /\ Len(call.ret[5]) = max_pred
        /\ Len(call.ret[6]) = max_pred

\* C2 as stated: when both truncated spans are non-empty, the number of ones
\* in masked_weights is n_pred = min(max_pred, max(1, round(len(tokens) * mask_prob))).
C2_OnesEqualNPred ==
    (Returned("transform") /\ Len(TruncatedSpans[1]) > 0 /\ Len(TruncatedSpans[2]) > 0) =>
        Ones(call.ret[6]) = StatedNPred(Len(AssembledTokens))

\* C2 as amended: when both truncated spans are non-empty, the number of ones
\* in masked_weights is the smaller of n_pred and the number of candidate
\* positions, len(tokens) - 3.
C2_OnesEqualMinNPredCands ==
    (Returned("transform") /\ Len(TruncatedSpans[1]) > 0 /\ Len(TruncatedSpans[2]) > 0) =>
        Ones(call.ret[6]) = Min(StatedNPred(Len(AssembledTokens)), Len(AssembledTokens) - 3)

\* A returned instance of two non-empty spans whose n_pred exceeds the number
\* of candidate positions, all of which were masked.
C2_Witness ==
    /\ Returned("transform")
    /\ Len(TruncatedSpans[1]) > 0
    /\ Len(TruncatedSpans[2]) > 0
    /\ StatedNPred(Len(AssembledTokens)) > Len(AssembledTokens) - 3
    /\ Ones(call.ret[6]) = Len(AssembledTokens) - 3

\* C10: in every returned instance the entries of masked_pos with weight 1 are
\* pairwise distinct positions of the assembled sequence holding neither [CLS]
\* nor [SEP], and masked_ids holds the id of the token that stood there before
\* any replacement.
C10_MaskedEntries ==
    Returned("transform") =>
        LET masked_ids == call.ret[4]
            masked_pos == call.ret[5]
            masked_weights == call.ret[6]
            real == {i \in 1..Len(masked_weights) : masked_weights[i] = 1}
        IN /\ \A i \in real :
                /\ i <= Len(masked_pos)
                /\ i <= Len(masked_ids)
                /\ masked_pos[i] \in 0..(Len(AssembledTokens) - 1)
                /\ AssembledTokens[masked_pos[i] + 1] \notin {"[CLS]", "[SEP]"}
                /\ masked_ids[i] = TokenId(AssembledTokens[masked_pos[i] + 1])
           /\ \A i, j \in real : i /= j => masked_pos[i] /= masked_pos[j]

\* A returned instance with two masked positions, one of which no longer holds
\* its original token.
C10_Witness ==
    /\ Returned("transform")
    /\ Ones(call.ret[6]) >= 2
    /\ \E i \in 1..Len(call.ret[6]) :
          /\ call.ret[6][i] = 1
          /\ call.ret[1][call.ret[5][i] + 1] /= call.ret[4][i]

\* The concatenation of the tokens of the lines first .. last - 1 of the corpus.
RECURSIVE TokensOfLines(_, _)
TokensOfLines(first, last) ==
    IF first >= last THEN <<>>
    ELSE sentences[first + 1] \o TokensOfLines(first + 1, last)

BlankAt(i) == sentences[i + 1] = <<>>

\* C8: the tokens read_tokens returns are those of consecutive non-blank lines
\* of one document.  With non_empty they are the lines after the last blank
\* line read (the read restarts after every blank line); without it they are
\* the lines from the start index on, the read ends at the first blank line
\* and reads no line after it.
C8_OneDocument ==
    (Returned("read") /\ call.ret.ok) =>
        LET start == call.args[1]
            length == call.args[2]
            non_empty == call.args[3]
            stop == call.ret.idx
            blanks == {i \in start..(stop - 1) : BlankAt(i)}
        IN IF non_empty
           THEN LET first == IF blanks = {} THEN start
                             ELSE 1 + CHOOSE i \in blanks : \A j \in blanks : j <= i
                IN call.ret.tokens = TokensOfLines(first, stop)
           ELSE IF blanks = {}
                THEN /\ call.ret.tokens = TokensOfLines(start, stop)
                     /\ Len(call.ret.tokens) >= length
                ELSE /\ blanks = {stop - 1}
                     /\ call.ret.tokens = TokensOfLines(start, stop - 1)
                     /\ Len(call.ret.tokens) < length

\* A read with non_empty that threw tokens away at a blank line and returned
\* the tokens of the lines after it.
C8_Witness ==
    /\ Returned("read")
    /\ call.ret.ok
    /\ call.args[3]
    /\ Len(call.ret.tokens) >= 2
    /\ \E i \in (call.args[1] + 1)..(call.ret.idx - 1) : BlankAt(i) /\ ~BlankAt(i - 1)

\* C3: every yielded batch holds exactly batch_size instances; a slot with an
\* exhausted read ends the iteration by a return, yielding nothing, and after
\* the return nothing is yielded.
C3_WholeBatchesOnly ==
    /\ [](pc = "yield" => /\ Len(out) = 7
                          /\ \A k \in 1..7 : Len(out[k]) = batch_size)
    /\ [][(nslots' = nslots + 1 /\ (~slot'.ra.ok \/ ~slot'.rb.ok))
            => (pc' = "done" /\ nyield' = nyield /\ out' = <<>>)]_vars
    /\ [][pc = "done" => (pc' = "done" /\ nyield' = nyield /\ out' = <<>>)]_vars

\* An iteration that yielded a batch and then returned with a partial batch
\* collected.
C3_Witness ==
    /\ pc = "done"
    /\ nyield >= 1
    /\ batch_size >= 2
    /\ Len(batch) >= 1
    /\ Len(batch) < batch_size

\* C4: over a corpus of N lines an iteration runs at most N + 1 slots, has
\* returned after the slot N + 1, and yields at most floor(N / batch_size)
\* batches.
C4_Finite ==
    /\ nslots <= Len(sentences) + 1
    /\ nslots = Len(sentences) + 1 => pc = "done"
    /\ nyield * batch_size <= Len(sentences)

\* An iteration that ran N + 1 slots and yielded N / batch_size batches.
C4_Witness ==
    /\ Len(sentences) >= 2
    /\ nslots = Len(sentences) + 1
    /\ nyield * batch_size = Len(sentences)
    /\ pc = "done"

\* C5: in a slot where is_next is false the second read starts at an index of
\* the corpus, 0 <= next_idx <= N - 1.
C5_RandomIndexInCorpus ==
    (nslots > 0 /\ ~slot.is_next) =>
        (0 <= slot.next_idx /\ slot.next_idx <= Len(sentences) - 1)

\* C6: in a slot where is_next is true the second read starts at the line
\* after the last line the first read consumed.
C6_NextAfterReadRegion ==
    (nslots > 0 /\ slot.is_next /\ slot.ra.ok) => slot.next_idx = slot.ra.idx

\* C7: with batch_size <= 0 or max_pred > max_len no slot runs and no batch
\* is yielded.
C7_MisconfigurationRejected ==
    (batch_size <= 0 \/ max_pred > max_len) => (nslots = 0 /\ nyield = 0)

\* C9: the cursor starts at 0, never decreases, and has moved by exactly one
\* per slot run, whatever the reads of the slot consumed or returned.
C9_CursorByOne ==
    /\ [](now = nslots)
    /\ [][now' >= now]_vars
    /\ [][nslots' = nslots + 1 => now' = now + 1]_vars

\* An iteration that ended in a slot whose first read was exhausted after
\* reading two lines or more, with the cursor at the number of slots run.
C9_Witness ==
    /\ pc = "done"
    /\ nslots >= 2
    /\ now = nslots
    /\ ~slot.ra.ok
    /\ slot.ra.idx >= slot.start + 2

====
